---------------------------- MODULE Spec2Model ----------------------------
(***************************************************************************)
(* A model of herd, a message router on top of a Deno KV queue: the router *)
(* registry of mod.ts, the Router and Route classes of router.ts, and the  *)
(* helpers of utils.ts.  The queue store (Deno.Kv) is the environment.     *)
(***************************************************************************)
EXTENDS Integers, Sequences, FiniteSets, TLC

VARIABLES
    given,       \* the options the Router under study was constructed with
    router,      \* the private option fields of the Router under study
    routes,      \* Router.#routes: a Map, kept as its entries in insertion order
    onCalls,     \* number of on() calls made so far
    deliveries,  \* one record per invocation of Router.#handler
    now,         \* the clock read by Date.now()
    queue,       \* the entries handed to Deno.Kv.enqueue, in order
    kv,          \* the writes the store made to keysIfUndelivered keys
    listening,   \* listenQueue(#handler) has been called
    routerMap,   \* mod.ts routerMap: store handle -> Router instance
    instances,   \* the Router instances built by setRouter, by instance id
    handles,     \* number of store handles opened so far
    pending,     \* init() calls suspended in `await resolveDb(db)`
    calls,       \* completed init() calls, in completion order
    warnings,    \* number of "Router already initialized" warnings logged
    registrations,  \* one record per on() call: what it was given and did
    aborted,     \* signal.aborted of the caller's AbortSignal
    abortListeners, \* "abort" listeners listen() added to that signal
    closed,      \* Deno.Kv.close() has been called on the store handle
    settled,     \* the promise listen() returned has settled
    arrays       \* the array objects the caller of the Router holds

vars == << given, router, routes, onCalls, deliveries, now, queue, kv, listening,
           routerMap, instances, handles, pending, calls, warnings,
           registrations, aborted, abortListeners, closed, settled, arrays >>

dispatchVars == << routes, onCalls, deliveries >>
queueVars == << now, queue, kv, listening >>
registryVars == << routerMap, instances, handles, pending, calls, warnings >>
listenVars == << aborted, abortListeners, closed, settled >>

---------------------------------------------------------------------------
(* Bounds of the model. *)
MaxOn == 2
MaxDeliveries == 2
MaxHandles == 2
MaxInitCalls == 3
MaxEnqueues == 2
MaxTime == 2
MaxRouters == 2
MaxBackoffCalls == 2
MaxReplaceOn == 3

---------------------------------------------------------------------------
(* JavaScript values.  `undefined` is the empty tuple and a defined value  *)
(* x is <<x>>, so that an optional field is always a tuple.                *)
Undefined == << >>
Some(x) == << x >>
IsDefined(m) == m # Undefined
\* A destructuring default `{ f = d }`: used when the field is undefined.
OrDefault(m, d) == IF m = Undefined THEN d ELSE m[1]
Range(seq) == { seq[i] : i \in 1 .. Len(seq) }

\* typeof, on the tokens that stand for the values of a message field.
TypeOf(token) ==
    CASE token = "null" -> "object"
      [] token = "object" -> "object"
      [] token = "array" -> "object"
      [] token = "string" -> "string"
      [] token = "number" -> "number"
      [] token = "undefined" -> "undefined"
      [] OTHER -> "undefined"

\* A delivered value: `top` is what the value itself is; for an object,
\* path/body/headers are its properties ("missing": the key is not there).
NoPath == << >>
Value(top, pathKind, path, body, headers) ==
    [top |-> top, pathKind |-> pathKind, path |-> path, body |-> body,
     headers |-> headers]
NonObject(top) == Value(top, "missing", NoPath, "missing", "missing")
Message(path, body, headers) == Value("object", "string", path, body, headers)

---------------------------------------------------------------------------
(* utils.ts *)

BACKOFF_SCHEDULE == << 1000, 2000, 4000, 8000, 16000 >>

\* The error assertIsMessage throws, or Undefined when it returns.
assertIsMessage(value) ==
    IF TypeOf(value.top) # "object" \/ value.top = "null"
    THEN Some("Message must be an object.")
    ELSE IF value.pathKind = "missing" \/ TypeOf(value.pathKind) # "string"
    THEN Some("Message must have a string path.")
    ELSE IF value.body = "missing"
    THEN Some("Message must have a body.")
    ELSE IF value.headers = "missing" \/ TypeOf(value.headers) # "object"
    THEN Some("Message must have headers.")
    ELSE Undefined

\* The undefined a regexp match array holds for a capture group that took
\* no part in the match.
NoCapture == "<undefined>"

\* The built-in decodeURIComponent on the path segments of the model: a
\* well-formed escape is decoded, a truncated one raises URIError, and an
\* argument that is not a string is converted to one first.
decodeURIComponent(text) ==
    CASE text = "%62" -> [throws |-> FALSE, text |-> "b"]
      [] text = "%E0%A4%A" -> [throws |-> TRUE, text |-> ""]
      [] text = NoCapture -> [throws |-> FALSE, text |-> "undefined"]
      [] OTHER -> [throws |-> FALSE, text |-> text]

decodeComponent(text) ==
    LET decoded == decodeURIComponent(text)
    IN  IF decoded.throws THEN text ELSE decoded.text

\* Math.random() is r / RandomDenominator for an integer r in
\* 0 .. RandomDenominator - 1, a value of [0, 1).
RandomDenominator == 1000
MaxMilliseconds == 1000
MinMilliseconds == 1
RandomSamples == { 0, RandomDenominator - 1 }
Randoms == [1 .. Len(BACKOFF_SCHEDULE) -> RandomSamples]

\* Math.floor(Math.random() * 1000): the `+ 1` forgotten.
getRandomMillisecondsFromZero(r) ==
    (r * (MaxMilliseconds - MinMilliseconds + 1)) \div RandomDenominator

getRandomMilliseconds(r) ==
    ((r * (MaxMilliseconds - MinMilliseconds + 1)) \div RandomDenominator)
        + MinMilliseconds

\* rnd[i] is the random number drawn for the i-th element.
getBackoffSchedule(rnd) ==
    [i \in 1 .. Len(BACKOFF_SCHEDULE) |->
        BACKOFF_SCHEDULE[i] + getRandomMilliseconds(rnd[i])]

---------------------------------------------------------------------------
(* router.ts: Route *)

\* A route pattern is a sequence of tokens, one per path segment: a literal
\* segment, a named parameter (:name), an optional named parameter, or a
\* token path-to-regexp rejects.
Lit(s) == [kind |-> "lit", name |-> s]
Param(n) == [kind |-> "param", name |-> n]
Optional(n) == [kind |-> "optional", name |-> n]
BadToken == [kind |-> "bad", name |-> ":"]

RECURSIVE KeysFrom(_, _)
KeysFrom(tokens, i) ==
    IF i > Len(tokens) THEN << >>
    ELSE (IF tokens[i].kind \in { "param", "optional" }
          THEN << tokens[i].name >> ELSE << >>)
             \o KeysFrom(tokens, i + 1)

\* path-to-regexp's pathToRegexp: throws on a malformed pattern, otherwise
\* the compiled matcher and the parameter keys in declaration order.
pathToRegexp(path) ==
    IF \E i \in 1 .. Len(path) : path[i].kind = "bad"
    THEN [throws |-> TRUE, regexp |-> << >>, keys |-> << >>]
    ELSE [throws |-> FALSE, regexp |-> path, keys |-> KeysFrom(path, 1)]

\* The captures of the groups of regexp from token i on when they match
\* the path from segment j to its end, Undefined when they do not.  An
\* optional group takes a segment when the rest still matches, and holds
\* undefined when it takes none.
RECURSIVE CapturesFrom(_, _, _, _)
CapturesFrom(regexp, i, path, j) ==
    IF i > Len(regexp)
    THEN (IF j > Len(path) THEN Some(<< >>) ELSE Undefined)
    ELSE LET token == regexp[i]
             taken ==
                 IF /\ j <= Len(path)
                    /\ token.kind = "lit" => path[j] = token.name
                 THEN CapturesFrom(regexp, i + 1, path, j + 1)
                 ELSE Undefined
             skipped ==
                 IF token.kind = "optional"
                 THEN CapturesFrom(regexp, i + 1, path, j)
                 ELSE Undefined
         IN  IF IsDefined(taken)
             THEN Some((IF token.kind = "lit" THEN << >> ELSE << path[j] >>)
                           \o taken[1])
             ELSE IF IsDefined(skipped)
             THEN Some(<< NoCapture >> \o skipped[1])
             ELSE Undefined

\* String.prototype.match with the compiled matcher: Undefined for null,
\* otherwise the match array without its first element (the captures).
Match(path, regexp) == CapturesFrom(regexp, 1, path, 1)

EmptyParams == << >>

\* new Route(router, path, handler): Undefined when the constructor throws.
NewRoute(path, handler) ==
    LET compiled == pathToRegexp(path)
    IN  IF compiled.throws THEN Undefined
        ELSE Some([path |-> path, handler |-> handler,
                   regexp |-> compiled.regexp, keys |-> compiled.keys,
                   params |-> EmptyParams])

RECURSIVE CaptureLoop(_, _, _, _)
CaptureLoop(keys, captures, i, params) ==
    IF i > Len(captures) THEN params
    ELSE IF i <= Len(keys)
    THEN CaptureLoop(keys, captures, i + 1,
                     (keys[i] :> decodeComponent(captures[i])) @@ params)
    ELSE CaptureLoop(keys, captures, i + 1, params)

\* A matches() that extracts the parameters and does not store them in the
\* route's slot.
matchesKeepsSlot(route, path) ==
    [result |-> IsDefined(Match(path, route.regexp)), params |-> route.params]

\* Route.matches: the result, and the route's #params slot afterwards.
matches(route, path) ==
    LET match == Match(path, route.regexp)
    IN  IF IsDefined(match)
        THEN [result |-> TRUE,
              params |-> CaptureLoop(route.keys, match[1], 1, EmptyParams)]
        ELSE [result |-> FALSE, params |-> route.params]

\* { ...headers }: a fresh object, also from null.
Spread(headers) == IF TypeOf(headers) = "object" THEN "object" ELSE headers

\* context.ts: the Context a handler receives.
Context(path, body, headers, params) ==
    [path |-> path, body |-> body, headers |-> Spread(headers),
     params |-> params]

\* Route.handle up to the call of the handler: the Context it builds from
\* the route's #params slot.
handle(route, path, body, headers) ==
    Context(path, body, headers, route.params)

---------------------------------------------------------------------------
(* router.ts: Router *)

\* A part of a Deno.KvKey is a string or a number.
Str(s) == [t |-> "string", s |-> s, n |-> 0]
Num(n) == [t |-> "number", s |-> "", n |-> n]

DEFAULT_DLQ_PREFIX == << Str("herd"), Str("dlq") >>

\* RouterOptions: every field is optional; hasBackoffSchedule is
\* `"backoffSchedule" in options`.
RouterOptions(enabledDlq, dlqPrefix, delay, hasBackoffSchedule, backoffSchedule, rejectForeign, rejectUnmatched) ==
    [enabledDlq |-> enabledDlq, dlqPrefix |-> dlqPrefix, delay |-> delay,
     hasBackoffSchedule |-> hasBackoffSchedule,
     backoffSchedule |-> backoffSchedule, rejectForeign |-> rejectForeign,
     rejectUnmatched |-> rejectUnmatched]
EmptyOptions ==
    RouterOptions(Undefined, Undefined, Undefined, FALSE, Undefined,
                  Undefined, Undefined)

\* new Router(db, options): the private fields after the constructor; rnd
\* are the random numbers getBackoffSchedule draws when it is called.
NewRouter(db, options, rnd) ==
    LET opts == OrDefault(options, EmptyOptions)
        dlqPrefix == OrDefault(opts.dlqPrefix, DEFAULT_DLQ_PREFIX)
        enabledDlq == OrDefault(opts.enabledDlq, FALSE)
    IN  [db |-> db,
         backoffSchedule |->
             IF opts.hasBackoffSchedule THEN opts.backoffSchedule
             ELSE Some(getBackoffSchedule(rnd)),
         dlqPrefix |-> IF enabledDlq THEN Some(dlqPrefix) ELSE Undefined,
         delay |-> opts.delay,
         rejectForeign |-> OrDefault(opts.rejectForeign, TRUE),
         rejectUnmatched |-> OrDefault(opts.rejectUnmatched, TRUE)]

LogRecord(level, message) == [level |-> level, message |-> message]
Event(op, route, ok) == [op |-> op, route |-> route, ok |-> ok]

\* A loop that keeps going after a match: the last matching route wins.
RouteLoopLastMatch(rs, i, path, trace, log) ==
    LET hits == { j \in i .. Len(rs) : matches(rs[j], path).result }
        last == CHOOSE j \in hits : \A h \in hits : h <= j
    IN  IF hits = { }
        THEN [found |-> 0, routes |-> rs, trace |-> trace, log |-> log]
        ELSE [found |-> last,
              routes |-> [rs EXCEPT ![last].params = matches(rs[last], path).params],
              trace |-> Append(trace, Event("matches", last, TRUE)),
              log |-> log]

\* The for loop of Router.#handler over #routes.values(): the index of the
\* first route whose matches() returns true (0 when the loop falls through),
\* the routes afterwards and what was called and logged on the way.
RECURSIVE RouteLoop(_, _, _, _, _)
RouteLoop(rs, i, path, trace, log) ==
    IF i > Len(rs) THEN [found |-> 0, routes |-> rs, trace |-> trace, log |-> log]
    ELSE LET m == matches(rs[i], path)
         IN  IF m.result
             THEN [found |-> i,
                   routes |-> [rs EXCEPT ![i].params = m.params],
                   trace |-> Append(trace, Event("matches", i, TRUE)),
                   log |-> Append(log,
                              LogRecord("debug", "Route.prototype.matches()"))]
             ELSE RouteLoop(rs, i + 1, path,
                            Append(trace, Event("matches", i, FALSE)), log)

\* What a handler does when it is called: it throws `thrown` at once
\* ("throws"), or the call is awaited ("pending").
HandlerSyncs == { "throws", "pending" }
HandlerErrors == { "boom" }

\* What one invocation of Router.#handler did: the value it was called with,
\* where it stands, the error it threw, what it logged and called, the
\* handlers it invoked and the Context it gave them, what the handler threw,
\* and the routes that were registered when it was called.
Delivery(value, state, error, log, trace, invoked, context, thrown, seen) ==
    [value |-> value, state |-> state, error |-> error, log |-> log,
     trace |-> trace, invoked |-> invoked, context |-> context,
     thrown |-> thrown, seen |-> seen]

\* The routes as on() left them: pattern and handler, in Map order.
Registered(rs) ==
    [i \in 1 .. Len(rs) |-> [path |-> rs[i].path, handler |-> rs[i].handler]]

\* A catch block that rethrows whatever rejectForeign says.
HandlerForeignAlwaysThrows(r, rs, value, error) ==
    Delivery(value, "Rejected", error,
             << LogRecord("warning", error[1]) >>,
             << Event("assertIsMessage", 0, FALSE) >>,
             << >>, Undefined, Undefined, Registered(rs))

\* The catch block around assertIsMessage.
HandlerForeign(r, rs, value, error) ==
    Delivery(value,
             IF r.rejectForeign THEN "Rejected" ELSE "Accepted",
             IF r.rejectForeign THEN error ELSE Undefined,
             << LogRecord("warning", error[1]) >>,
             << Event("assertIsMessage", 0, FALSE) >>,
             << >>, Undefined, Undefined, Registered(rs))

\* A fall-through that warns only when it rejects.
HandlerUnmatchedSilent(r, rs, value, loop) ==
    Delivery(value,
             IF r.rejectUnmatched THEN "Rejected" ELSE "Accepted",
             IF r.rejectUnmatched THEN Some("No route matched message")
             ELSE Undefined,
             IF r.rejectUnmatched
             THEN Append(loop.log,
                         LogRecord("warning", "No route matched message"))
             ELSE loop.log,
             loop.trace, << >>, Undefined, Undefined, Registered(rs))

\* After the for loop fell through.
HandlerUnmatched(r, rs, value, loop) ==
    Delivery(value,
             IF r.rejectUnmatched THEN "Rejected" ELSE "Accepted",
             IF r.rejectUnmatched THEN Some("No route matched message")
             ELSE Undefined,
             Append(loop.log, LogRecord("warning", "No route matched message")),
             loop.trace, << >>, Undefined, Undefined, Registered(rs))

\* A try block whose catch logs the handler's error and does not rethrow it.
HandlerMatchedSwallows(r, rs, value, loop, sync, thrown) ==
    LET route == loop.routes[loop.found]
        context == handle(route, value.path, value.body, value.headers)
        trace == Append(loop.trace, Event("handle", loop.found, TRUE))
        log == Append(loop.log, LogRecord("debug", "Route.prototype.handle()"))
    IN  IF sync = "throws"
        THEN Delivery(value, "Accepted", Undefined,
                      Append(log, LogRecord("info",
                                            "Handler failed to handle message")),
                      trace, << route.handler >>, Some(context),
                      Some(thrown), Registered(rs))
        ELSE Delivery(value, "Dispatching", Undefined, log, trace,
                      << route.handler >>, Some(context), Undefined,
                      Registered(rs))

\* The try block around `await route.handle(...)`, up to the await.
HandlerMatched(r, rs, value, loop, sync, thrown) ==
    LET route == loop.routes[loop.found]
        context == handle(route, value.path, value.body, value.headers)
        trace == Append(loop.trace, Event("handle", loop.found, TRUE))
        log == Append(loop.log, LogRecord("debug", "Route.prototype.handle()"))
    IN  IF sync = "throws"
        THEN Delivery(value, "Rejected", Some(thrown),
                      Append(log, LogRecord("info",
                                            "Handler failed to handle message")),
                      trace, << route.handler >>, Some(context),
                      Some(thrown), Registered(rs))
        ELSE Delivery(value, "Dispatching", Undefined, log, trace,
                      << route.handler >>, Some(context), Undefined,
                      Registered(rs))

\* A handler that runs the route loop first and checks the shape afterwards.
RouterHandlerMatchesFirst(r, rs, value, sync, thrown) ==
    LET error == assertIsMessage(value)
        first == RouteLoop(rs, 1, value.path, << >>, << >>)
        loop == [first EXCEPT
                    !.trace = Append(@, Event("assertIsMessage", 0, TRUE))]
    IN  IF IsDefined(error)
        THEN [delivery |->
                  [HandlerForeign(r, rs, value, error) EXCEPT
                      !.trace = first.trace \o @],
              routes |-> first.routes]
        ELSE IF loop.found = 0
        THEN [delivery |-> HandlerUnmatched(r, rs, value, loop),
              routes |-> loop.routes]
        ELSE [delivery |-> HandlerMatched(r, rs, value, loop, sync, thrown),
              routes |-> loop.routes]

\* Router.#handler from its call to its first suspension or its return:
\* the delivery record and the routes afterwards.
RouterHandler(r, rs, value, sync, thrown) ==
    LET error == assertIsMessage(value)
        loop == RouteLoop(rs, 1, value.path,
                          << Event("assertIsMessage", 0, TRUE) >>, << >>)
    IN  IF IsDefined(error)
        THEN [delivery |-> HandlerForeign(r, rs, value, error), routes |-> rs]
        ELSE IF loop.found = 0
        THEN [delivery |-> HandlerUnmatched(r, rs, value, loop),
              routes |-> loop.routes]
        ELSE [delivery |-> HandlerMatched(r, rs, value, loop, sync, thrown),
              routes |-> loop.routes]

\* A resumption that swallows the rejection of the handler's promise.
RouterHandlerResumeSwallow(d, thrown) ==
    [d EXCEPT !.state = "Accepted", !.thrown = thrown,
              !.trace = Append(@, Event("resume", 0, ~IsDefined(thrown)))]

\* Router.#handler resumed after the await: the handler's promise resolved
\* (thrown is Undefined) or rejected with thrown[1].
RouterHandlerResume(d, thrown) ==
    IF IsDefined(thrown)
    THEN [d EXCEPT !.state = "Rejected", !.error = thrown, !.thrown = thrown,
                   !.trace = Append(@, Event("resume", 0, FALSE)),
                   !.log = Append(@, LogRecord("info",
                                      "Handler failed to handle message"))]
    ELSE [d EXCEPT !.state = "Accepted",
                   !.trace = Append(@, Event("resume", 0, TRUE))]

\* A set that deletes an existing key first, so that it moves to the end.
MapSetMovesToEnd(rs, route) ==
    LET IsOther(r) == r.path # route.path
    IN  Append(SelectSeq(rs, IsOther), route)

\* Map.prototype.set(path, route): an existing key keeps its position.
MapSet(rs, route) ==
    IF \E i \in 1 .. Len(rs) : rs[i].path = route.path
    THEN [i \in 1 .. Len(rs) |->
             IF rs[i].path = route.path THEN route ELSE rs[i]]
    ELSE Append(rs, route)

\* An on() that stores the route before its pattern is compiled, so that a
\* pattern that does not compile leaves a route without a matcher behind.
onCompilesLater(rs, path, handler) ==
    LET compiled == pathToRegexp(path)
    IN  MapSet(rs, [path |-> path, handler |-> handler,
                    regexp |-> compiled.regexp, keys |-> compiled.keys,
                    params |-> EmptyParams])

\* Router.on: #routes afterwards (unchanged when new Route throws).
on(rs, path, handler) ==
    LET route == NewRoute(path, handler)
    IN  IF IsDefined(route) THEN MapSet(rs, route[1]) ELSE rs

\* One call on(path, handler) on the routes rs: what it was given, whether
\* it threw (the argument `new Route(...)` of #routes.set threw), and the
\* patterns and handlers in #routes before and after it.
Registration(rs, path, handler) ==
    [path |-> path, handler |-> handler,
     threw |-> ~IsDefined(NewRoute(path, handler)),
     before |-> Registered(rs), after |-> Registered(on(rs, path, handler))]

\* EnqueueInit: every field is optional.
EnqueueInit(body, headers, delay, keysIfUndelivered, backoffSchedule) ==
    [body |-> body, headers |-> headers, delay |-> delay,
     keysIfUndelivered |-> keysIfUndelivered,
     backoffSchedule |-> backoffSchedule]
EmptyInit == EnqueueInit(Undefined, Undefined, Undefined, Undefined, Undefined)

\* The options handed to Deno.Kv.enqueue.
KvEnqueueOptions(backoffSchedule, keysIfUndelivered, delay) ==
    [backoffSchedule |-> backoffSchedule,
     keysIfUndelivered |-> keysIfUndelivered, delay |-> delay]

\* An enqueue that puts the router's dead-letter key after the caller's keys.
enqueueKeyLast(r, path, init, t) ==
    LET i == OrDefault(init, EmptyInit)
        kIU == OrDefault(i.keysIfUndelivered, << >>)
    IN  [value |-> Message(path, OrDefault(i.body, "undefined"),
                           OrDefault(i.headers, "object")),
         options |-> KvEnqueueOptions(
             IF IsDefined(i.backoffSchedule) THEN i.backoffSchedule
             ELSE r.backoffSchedule,
             IF IsDefined(r.dlqPrefix)
             THEN kIU \o << r.dlqPrefix[1] \o << Num(t) >> >>
             ELSE kIU,
             IF IsDefined(i.delay) THEN i.delay ELSE r.delay)]

\* An enqueue that falls back to the router's delay on a falsy delay
\* (init.delay || this.#delay).
enqueueFalsyDelay(r, path, init, t) ==
    LET i == OrDefault(init, EmptyInit)
        kIU == OrDefault(i.keysIfUndelivered, << >>)
    IN  [value |-> Message(path, OrDefault(i.body, "undefined"),
                           OrDefault(i.headers, "object")),
         options |-> KvEnqueueOptions(
             IF IsDefined(i.backoffSchedule) THEN i.backoffSchedule
             ELSE r.backoffSchedule,
             IF IsDefined(r.dlqPrefix)
             THEN << r.dlqPrefix[1] \o << Num(t) >> >> \o kIU
             ELSE kIU,
             IF IsDefined(i.delay) /\ i.delay[1] # 0 THEN i.delay ELSE r.delay)]

\* An enqueue that attaches no dead-letter key of the router.
enqueueNoDlqKey(r, path, init, t) ==
    LET i == OrDefault(init, EmptyInit)
    IN  [value |-> Message(path, OrDefault(i.body, "undefined"),
                           OrDefault(i.headers, "object")),
         options |-> KvEnqueueOptions(
             IF IsDefined(i.backoffSchedule) THEN i.backoffSchedule
             ELSE r.backoffSchedule,
             OrDefault(i.keysIfUndelivered, << >>),
             IF IsDefined(i.delay) THEN i.delay ELSE r.delay)]

\* An enqueue whose default schedule is a fresh getBackoffSchedule() call.
enqueueRegenerates(r, path, init, t) ==
    LET i == OrDefault(init, EmptyInit)
        kIU == OrDefault(i.keysIfUndelivered, << >>)
    IN  [value |-> Message(path, OrDefault(i.body, "undefined"),
                           OrDefault(i.headers, "object")),
         options |-> KvEnqueueOptions(
             IF IsDefined(i.backoffSchedule) THEN i.backoffSchedule
             ELSE Some(getBackoffSchedule(
                          [k \in 1 .. Len(BACKOFF_SCHEDULE) |->
                              RandomDenominator - 1])),
             IF IsDefined(r.dlqPrefix)
             THEN << r.dlqPrefix[1] \o << Num(t) >> >> \o kIU
             ELSE kIU,
             IF IsDefined(i.delay) THEN i.delay ELSE r.delay)]

\* An enqueue without the `= {}` default of headers.
enqueueNoHeadersDefault(r, path, init, t) ==
    LET i == OrDefault(init, EmptyInit)
        body == OrDefault(i.body, "undefined")
        headers == OrDefault(i.headers, "undefined")
        backoffSchedule ==
            IF IsDefined(i.backoffSchedule) THEN i.backoffSchedule
            ELSE r.backoffSchedule
        kIU == OrDefault(i.keysIfUndelivered, << >>)
        delay == IF IsDefined(i.delay) THEN i.delay ELSE r.delay
        keysIfUndelivered ==
            IF IsDefined(r.dlqPrefix)
            THEN << r.dlqPrefix[1] \o << Num(t) >> >> \o kIU
            ELSE kIU
    IN  [value |-> Message(path, body, headers),
         options |-> KvEnqueueOptions(backoffSchedule, keysIfUndelivered,
                                      delay)]

\* Router.enqueue: the value and the options it hands to Deno.Kv.enqueue;
\* t is what Date.now() returns.
enqueue(r, path, init, t) ==
    LET i == OrDefault(init, EmptyInit)
        body == OrDefault(i.body, "undefined")
        headers == OrDefault(i.headers, "object")
        backoffSchedule ==
            IF IsDefined(i.backoffSchedule) THEN i.backoffSchedule
            ELSE r.backoffSchedule
        kIU == OrDefault(i.keysIfUndelivered, << >>)
        delay == IF IsDefined(i.delay) THEN i.delay ELSE r.delay
        keysIfUndelivered ==
            IF IsDefined(r.dlqPrefix)
            THEN << r.dlqPrefix[1] \o << Num(t) >> >> \o kIU
            ELSE kIU
    IN  [value |-> Message(path, body, headers),
         options |-> KvEnqueueOptions(backoffSchedule, keysIfUndelivered,
                                      delay)]

---------------------------------------------------------------------------
(* The dispatch specification: one Router, on() calls, and the deliveries  *)
(* the queue store makes to Router.#handler, which may overlap.            *)

\* Every on() call passes a handler of its own: the k-th call passes Handlers[k].
Handlers == << "h1", "h2", "h3", "h4" >>
Patterns == { << Lit("a") >>, << Param("id") >>, << BadToken >> }
Paths == { << "a" >>, << "%62" >> }
WellFormed == { Message(p, "number", "object") : p \in Paths }
Malformed ==
    { NonObject("string"),
      Value("object", "string", << "a" >>, "undefined", "string") }
DeliveredValues == WellFormed \cup Malformed

Maybe(S) == { Undefined } \cup { Some(x) : x \in S }

DispatchOptions ==
    { RouterOptions(Undefined, Undefined, Undefined, TRUE, Undefined, rf, ru) :
        rf \in { Undefined, Some(FALSE) }, ru \in { Undefined, Some(FALSE) } }

NoRegistry ==
    /\ routerMap = << >>
    /\ instances = << >>
    /\ handles = 0
    /\ pending = << >>
    /\ calls = << >>
    /\ warnings = 0

NoQueue ==
    /\ now = 0
    /\ queue = << >>
    /\ kv = { }
    /\ listening = FALSE

\* No AbortSignal has aborted and listen() has not been called.
NoListen ==
    /\ aborted = FALSE
    /\ abortListeners = 0
    /\ closed = FALSE
    /\ settled = FALSE

\* The caller holds no array object that it passed to the Router or got
\* from it.
NoArrays == arrays = << >>

Init ==
    /\ \E options \in DispatchOptions, rnd \in Randoms :
          /\ given = Some(options)
          /\ router = NewRouter(1, Some(options), rnd)
    /\ routes = << >>
    /\ onCalls = 0
    /\ registrations = << >>
    /\ deliveries = << >>
    /\ NoQueue
    /\ NoRegistry
    /\ NoListen
    /\ NoArrays

\* router.on(path, handler)
On(path, handler) ==
    /\ onCalls < MaxOn
    /\ handler = Handlers[onCalls + 1]
    /\ onCalls' = onCalls + 1
    /\ routes' = on(routes, path, handler)
    /\ registrations' = Append(registrations,
                               Registration(routes, path, handler))
    /\ UNCHANGED << given, router, deliveries, queue, kv, now, listening >>
    /\ UNCHANGED registryVars
    /\ UNCHANGED << listenVars, arrays >>

\* The store calls Router.#handler with a dequeued value.
Deliver(value, sync, thrown) ==
    /\ Len(deliveries) < MaxDeliveries
    /\ LET run == RouterHandler(router, routes, value, sync, thrown)
       IN  /\ deliveries' = Append(deliveries, run.delivery)
           /\ routes' = run.routes
    /\ UNCHANGED << given, router, onCalls, queue, kv, now, listening >>
    /\ UNCHANGED registryVars
    /\ UNCHANGED << registrations, listenVars, arrays >>

\* The promise of a handler settles and Router.#handler resumes.
Settle(d, thrown) ==
    /\ d \in 1 .. Len(deliveries)
    /\ deliveries[d].state = "Dispatching"
    /\ deliveries' = [deliveries EXCEPT ![d] = RouterHandlerResume(@, thrown)]
    /\ UNCHANGED << given, router, routes, onCalls, queue, kv, now, listening >>
    /\ UNCHANGED registryVars
    /\ UNCHANGED << registrations, listenVars, arrays >>

Next ==
    \/ \E path \in Patterns, handler \in Range(Handlers) : On(path, handler)
    \/ \E value \in DeliveredValues, sync \in HandlerSyncs,
          thrown \in HandlerErrors : Deliver(value, sync, thrown)
    \/ \E d \in 1 .. MaxDeliveries, thrown \in Maybe(HandlerErrors) :
          Settle(d, thrown)

Spec == Init /\ [][Next]_vars

---------------------------------------------------------------------------
(* mod.ts: the registry of routers, one per store handle.                  *)

\* resolveDb: a Deno.Kv handle is returned as it is; for a path or nothing,
\* Deno.openKv opens a new handle.  Handles are numbered from 1; the
\* argument 0 stands for a path or undefined.
resolveDb(db, opened) ==
    IF db # 0 THEN [db |-> db, handles |-> opened]
    ELSE [db |-> opened + 1, handles |-> opened + 1]

\* A setRouter that builds the Router and does not put it in routerMap.
setRouterForgets(map, insts, db, options, rnd) ==
    [routerMap |-> map,
     instances |-> Append(insts, NewRouter(db, options, rnd)),
     returned |-> Len(insts) + 1]

\* setRouter: the instance built is the next element of `insts`.
setRouter(map, insts, db, options, rnd) ==
    [routerMap |-> (db :> (Len(insts) + 1)) @@ map,
     instances |-> Append(insts, NewRouter(db, options, rnd)),
     returned |-> Len(insts) + 1]

\* A getRouter that builds a router on every call.
getRouterAlwaysSet(map, insts, warned, db, options, rnd) ==
    LET set == setRouter(map, insts, db, options, rnd)
    IN  [routerMap |-> set.routerMap, instances |-> set.instances,
         warnings |-> IF db \in DOMAIN map /\ IsDefined(options)
                      THEN warned + 1 ELSE warned,
         returned |-> set.returned]

\* getRouter after `await resolveDb(db)`: the registry, the warnings logged
\* and the instance returned.
getRouter(map, insts, warned, db, options, rnd) ==
    LET got == IF db \in DOMAIN map
               THEN [routerMap |-> map, instances |-> insts,
                     returned |-> map[db]]
               ELSE setRouter(map, insts, db, options, rnd)
    IN  [routerMap |-> got.routerMap, instances |-> got.instances,
         warnings |-> IF db \in DOMAIN map /\ IsDefined(options)
                      THEN warned + 1 ELSE warned,
         returned |-> got.returned]

\* The options init() is called with, when it is called with options.
InitOptions ==
    { RouterOptions(Some(TRUE), Undefined, Some(5), TRUE, Some(<< 10 >>),
                    Some(FALSE), Undefined) }
InitRandoms ==
    { [i \in 1 .. Len(BACKOFF_SCHEDULE) |-> r] : r \in RandomSamples }

NoRouter ==
    /\ given = Undefined
    /\ router = Undefined
    /\ routes = << >>
    /\ onCalls = 0
    /\ registrations = << >>
    /\ deliveries = << >>

InitRegistry ==
    /\ NoRegistry
    /\ NoRouter
    /\ NoQueue
    /\ NoListen
    /\ NoArrays

\* The program opens a store handle itself: Deno.openKv().
OpenKv ==
    /\ handles < MaxHandles
    /\ handles' = handles + 1
    /\ UNCHANGED << routerMap, instances, pending, calls, warnings >>
    /\ UNCHANGED << given, router, routes, onCalls, deliveries >>
    /\ UNCHANGED queueVars
    /\ UNCHANGED << registrations, listenVars, arrays >>

\* Math.random() is called only when the resumed call constructs a Router
\* from options without a backoffSchedule key.
NoRandoms == [i \in 1 .. Len(BACKOFF_SCHEDULE) |-> 0]
DrawsRandoms(call, map) ==
    /\ call.db \notin DOMAIN map
    /\ ~OrDefault(call.options, EmptyOptions).hasBackoffSchedule

\* init(db, options) is called and suspends in `await resolveDb(db)`;
\* `after` is the number of init() calls that had completed by then.
InitCall(db, options) ==
    /\ Len(calls) + Len(pending) < MaxInitCalls
    /\ db \in 0 .. handles
    /\ pending' = Append(pending, [db |-> db, options |-> options,
                                   after |-> Len(calls)])
    /\ UNCHANGED << routerMap, instances, handles, calls, warnings >>
    /\ UNCHANGED << given, router, routes, onCalls, deliveries >>
    /\ UNCHANGED queueVars
    /\ UNCHANGED << registrations, listenVars, arrays >>

\* The i-th suspended call resumes.  Calls given a handle await a promise
\* that is already resolved, so they resume in the order they were made;
\* Deno.openKv resolves whenever the store is ready.
InitResume(i, rnd) ==
    /\ i \in 1 .. Len(pending)
    /\ pending[i].db # 0 => \A j \in 1 .. i - 1 : pending[j].db = 0
    /\ pending[i].db = 0 => handles < MaxHandles
    /\ DrawsRandoms(pending[i], routerMap) \/ rnd = NoRandoms
    /\ LET call == pending[i]
           resolved == resolveDb(call.db, handles)
           got == getRouter(routerMap, instances, warnings, resolved.db,
                            call.options, rnd)
       IN  /\ handles' = resolved.handles
           /\ routerMap' = got.routerMap
           /\ instances' = got.instances
           /\ warnings' = got.warnings
           /\ calls' = Append(calls,
                  [db |-> resolved.db, options |-> call.options,
                   rnd |-> rnd, returned |-> got.returned,
                   after |-> call.after])
    /\ pending' = [k \in 1 .. Len(pending) - 1 |->
                      IF k < i THEN pending[k] ELSE pending[k + 1]]
    /\ UNCHANGED << given, router, routes, onCalls, deliveries >>
    /\ UNCHANGED queueVars
    /\ UNCHANGED << registrations, listenVars, arrays >>

NextRegistry ==
    \/ OpenKv
    \/ \E db \in 0 .. MaxHandles, options \in Maybe(InitOptions) :
          InitCall(db, options)
    \/ \E i \in 1 .. MaxInitCalls, rnd \in InitRandoms : InitResume(i, rnd)

SpecInit == InitRegistry /\ [][NextRegistry]_vars

---------------------------------------------------------------------------
(* The enqueue specification: one Router built with any of the options,    *)
(* the clock, and enqueue() calls.                                         *)

\* An entry of the queue: what Deno.Kv.enqueue was given, who called it
\* (Router.enqueue with `init` at time `at`, or another party), and what
\* the store did with it since.
Entry(call, via, init, at) ==
    [value |-> call.value, options |-> call.options, via |-> via,
     init |-> init, at |-> at, status |-> "queued", delivered |-> 0,
     delivery |-> Undefined]

Key1 == << Str("undelivered"), Num(1) >>
Key2 == << Str("undelivered"), Num(2) >>

\* delay, `"backoffSchedule" in options`, backoffSchedule
EnqueueDefaults ==
    { << Undefined, FALSE, Undefined >>, << Some(0), TRUE, Undefined >>,
      << Some(7), TRUE, Some(<< 10, 20 >>) >>,
      << Undefined, TRUE, Some(<< >>) >> }
EnqueueOptions ==
    { RouterOptions(dlq, prefix, d[1], d[2], d[3], Undefined, Undefined) :
        dlq \in Maybe(BOOLEAN),
        prefix \in { Undefined, Some(<< Str("p") >>) },
        d \in EnqueueDefaults }

EnqueuePaths == { << "a" >> }
EnqueueInits ==
    { Undefined,
      Some(EmptyInit),
      Some(EnqueueInit(Some("number"), Some("object"), Some(0), Undefined,
                       Some(<< >>))),
      Some(EnqueueInit(Undefined, Undefined, Some(9), Some(<< >>),
                       Some(<< 3 >>))),
      Some(EnqueueInit(Undefined, Undefined, Undefined, Some(<< Key1 >>),
                       Undefined)),
      Some(EnqueueInit(Some("number"), Undefined, Undefined,
                       Some(<< Key1, Key2 >>), Undefined)) }

InitEnqueue ==
    /\ \E options \in Maybe(EnqueueOptions), rnd \in InitRandoms :
          /\ given = options
          /\ router = NewRouter(1, options, rnd)
    /\ routes = << >>
    /\ onCalls = 0
    /\ registrations = << >>
    /\ deliveries = << >>
    /\ NoQueue
    /\ NoRegistry
    /\ NoListen
    /\ NoArrays

\* Time passes.
Tick ==
    /\ now < MaxTime
    /\ now' = now + 1
    /\ UNCHANGED << given, router, routes, onCalls, deliveries, queue, kv,
                    listening >>
    /\ UNCHANGED registryVars
    /\ UNCHANGED << registrations, listenVars, arrays >>

\* router.enqueue(path, init)
Enqueue(path, init) ==
    /\ Len(queue) < MaxEnqueues
    /\ queue' = Append(queue,
                       Entry(enqueue(router, path, init, now), "router",
                             init, now))
    /\ UNCHANGED << given, router, routes, onCalls, deliveries, now, kv,
                    listening >>
    /\ UNCHANGED registryVars
    /\ UNCHANGED << registrations, listenVars, arrays >>

NextEnqueue ==
    \/ Tick
    \/ \E path \in EnqueuePaths, init \in EnqueueInits : Enqueue(path, init)

SpecEnqueue == InitEnqueue /\ [][NextEnqueue]_vars

---------------------------------------------------------------------------
(* The queue specification: the Router, producers (Router.enqueue and      *)
(* another party that enqueues on the same store) and the store, which     *)
(* delivers to Router.#handler, redelivers after a failure as the          *)
(* backoffSchedule of the entry says and then writes the value under the   *)
(* keysIfUndelivered of the entry.                                         *)

\* The schedule the store follows for an entry: the one it was enqueued
\* with.  Every enqueue of this specification names one.
ScheduleInEffect(entry) == entry.options.backoffSchedule[1]

\* The store after the handler settled delivery number `delivered` of
\* entry e: done when it was accepted, queued again while the schedule has
\* a delay left, and otherwise written under each of its keysIfUndelivered.
KvAfterDelivery(q, store, e, accepted) ==
    IF accepted
    THEN [queue |-> [q EXCEPT ![e].status = "done", ![e].delivery = Undefined],
          kv |-> store]
    ELSE IF q[e].delivered <= Len(ScheduleInEffect(q[e]))
    THEN [queue |-> [q EXCEPT ![e].status = "queued",
                              ![e].delivery = Undefined],
          kv |-> store]
    ELSE [queue |-> [q EXCEPT ![e].status = "undelivered", ![e].delivery = Undefined],
          kv |-> store \cup
                 { [key |-> key, entry |-> e] :
                     key \in Range(q[e].options.keysIfUndelivered) }]

QueueOptions ==
    { RouterOptions(Some(TRUE), Undefined, Undefined, TRUE, schedule, flag, flag) :
        schedule \in { Some(<< 10 >>) },
        flag \in { Undefined, Some(FALSE) } }
QueueRoutes == { << >>, on(<< >>, << Param("id") >>, Handlers[1]) }
QueueInits ==
    { Undefined,
      Some(EnqueueInit(Undefined, Undefined, Undefined, Some(<< Key1 >>),
                       Some(<< >>))) }
ForeignValues == { NonObject("string") }
ForeignOptions ==
    { KvEnqueueOptions(Some(<< >>), << >>, Undefined),
      KvEnqueueOptions(Some(<< 5 >>), << Key2 >>, Undefined) }

InitQueue ==
    /\ \E options \in QueueOptions, rnd \in InitRandoms :
          /\ given = Some(options)
          /\ router = NewRouter(1, Some(options), rnd)
    /\ routes \in QueueRoutes
    /\ onCalls = Len(routes)
    /\ registrations
          = [i \in 1 .. Len(routes) |->
                Registration(<< >>, routes[i].path, routes[i].handler)]
    /\ NoListen
    /\ NoArrays
    /\ deliveries = << >>
    /\ NoQueue
    /\ NoRegistry

\* Another party enqueues on the same store: db.enqueue(value, options).
ForeignEnqueue(value, options) ==
    /\ Len(queue) < MaxEnqueues
    /\ queue' = Append(queue,
                       Entry([value |-> value, options |-> options],
                             "foreign", Undefined, now))
    /\ UNCHANGED << given, router, routes, onCalls, deliveries, now, kv,
                    listening >>
    /\ UNCHANGED registryVars
    /\ UNCHANGED << registrations, listenVars, arrays >>

\* router.listen(): the store starts delivering to Router.#handler.
Listen ==
    /\ ~listening
    /\ listening' = TRUE
    /\ UNCHANGED << given, router, routes, onCalls, deliveries, now, queue,
                    kv >>
    /\ UNCHANGED registryVars
    /\ UNCHANGED << registrations, listenVars, arrays >>

\* The store delivers entry e: Router.#handler runs to its first await or
\* to its end, and in the latter case the store takes its result.
QueueDeliver(e, sync, thrown) ==
    /\ listening
    /\ e \in 1 .. Len(queue)
    /\ queue[e].status = "queued"
    /\ LET run == RouterHandler(router, routes, queue[e].value, sync, thrown)
           q == [queue EXCEPT ![e].delivered = @ + 1]
           after == KvAfterDelivery(q, kv, e, run.delivery.state = "Accepted")
       IN  /\ routes' = run.routes
           /\ IF run.delivery.state = "Dispatching"
              THEN /\ queue' = [q EXCEPT ![e].status = "inflight",
                                         ![e].delivery = Some(run.delivery)]
                   /\ kv' = kv
              ELSE /\ queue' = after.queue
                   /\ kv' = after.kv
    /\ UNCHANGED << given, router, onCalls, deliveries, now, listening >>
    /\ UNCHANGED registryVars
    /\ UNCHANGED << registrations, listenVars, arrays >>

\* The promise of the handler of entry e settles, Router.#handler resumes
\* and the store takes its result.
QueueSettle(e, thrown) ==
    /\ e \in 1 .. Len(queue)
    /\ queue[e].status = "inflight"
    /\ LET d == RouterHandlerResume(queue[e].delivery[1], thrown)
           after == KvAfterDelivery(queue, kv, e, d.state = "Accepted")
       IN  /\ queue' = after.queue
           /\ kv' = after.kv
    /\ UNCHANGED << given, router, routes, onCalls, deliveries, now,
                    listening >>
    /\ UNCHANGED registryVars
    /\ UNCHANGED << registrations, listenVars, arrays >>

QueueDelivers(e) ==
    \E sync \in HandlerSyncs, thrown \in HandlerErrors :
        QueueDeliver(e, sync, thrown)
QueueSettles(e) == \E thrown \in Maybe(HandlerErrors) : QueueSettle(e, thrown)

NextQueue ==
    \/ Tick
    \/ \E path \in EnqueuePaths, init \in QueueInits : Enqueue(path, init)
    \/ \E value \in ForeignValues, options \in ForeignOptions :
          ForeignEnqueue(value, options)
    \/ Listen
    \/ \E e \in 1 .. MaxEnqueues : QueueDelivers(e)
    \/ \E e \in 1 .. MaxEnqueues : QueueSettles(e)

SpecQueue == InitQueue /\ [][NextQueue]_vars

\* The store keeps delivering what is queued, and every handler settles.
SpecQueueFair ==
    /\ SpecQueue
    /\ \A e \in 1 .. MaxEnqueues :
          WF_vars(QueueDelivers(e)) /\ WF_vars(QueueSettles(e))

---------------------------------------------------------------------------
(* Properties of the dispatch specification. *)

\* The pattern, once compiled, matches the path.
PatternMatches(pattern, path) ==
    IsDefined(Match(path, pathToRegexp(pattern).regexp))

PassesShapeCheck(value) == assertIsMessage(value) = Undefined

\* The routes registered at the time of delivery d that match its path.
MatchingRoutes(d) ==
    { i \in 1 .. Len(d.seen) : PatternMatches(d.seen[i].path, d.value.path) }

Calls(d, op) == { k \in 1 .. Len(d.trace) : d.trace[k].op = op }
IsWarning(record) == record.level = "warning"
Warnings(d) == SelectSeq(d.log, IsWarning)
Least(S) == CHOOSE x \in S : \A y \in S : x <= y

RejectForeignGiven == OrDefault(given[1].rejectForeign, TRUE)
RejectUnmatchedGiven == OrDefault(given[1].rejectUnmatched, TRUE)

(* C1: for every delivery of a well-formed message, the handler of the     *)
(* first route in registration order whose pattern matches the path is     *)
(* invoked, exactly once, and no other handler is invoked in that          *)
(* delivery, whether the handler succeeds or fails.                        *)
C1_FirstMatchOnly ==
    \A k \in 1 .. Len(deliveries) :
        LET d == deliveries[k]
            hits == MatchingRoutes(d)
        IN  (PassesShapeCheck(d.value) /\ hits # { }) =>
                /\ d.invoked = << d.seen[Least(hits)].handler >>
                /\ Cardinality(Calls(d, "handle")) = 1
                /\ \A e \in Calls(d, "handle") : d.trace[e].route = Least(hits)

\* A delivery that two routes match and whose handler failed.
C1_Witness ==
    \E k \in 1 .. Len(deliveries) :
        /\ Cardinality(MatchingRoutes(deliveries[k])) >= 2
        /\ deliveries[k].state = "Rejected"
        /\ IsDefined(deliveries[k].thrown)

(* C2: a well-formed message that matches no registered route is logged    *)
(* with one warning; with rejectUnmatched true (the default) the dispatch  *)
(* fails with an error, with rejectUnmatched false it settles with no      *)
(* error; no handler is invoked.                                           *)
C2_UnmatchedPolicy ==
    \A k \in 1 .. Len(deliveries) :
        LET d == deliveries[k]
        IN  (PassesShapeCheck(d.value) /\ MatchingRoutes(d) = { }) =>
                /\ Warnings(d)
                       = << LogRecord("warning", "No route matched message") >>
                /\ d.invoked = << >>
                /\ RejectUnmatchedGiven =>
                       d.state = "Rejected" /\ IsDefined(d.error)
                /\ ~RejectUnmatchedGiven =>
                       d.state = "Accepted" /\ d.error = Undefined

\* An unmatched message accepted by a router that has routes.
C2_Witness ==
    \E k \in 1 .. Len(deliveries) :
        /\ PassesShapeCheck(deliveries[k].value)
        /\ deliveries[k].seen # << >>
        /\ MatchingRoutes(deliveries[k]) = { }
        /\ given[1].rejectUnmatched = Some(FALSE)
        /\ deliveries[k].state = "Accepted"

(* C3: a delivered value that fails the shape check is logged with one     *)
(* warning; with rejectForeign true (the default) the dispatch fails with  *)
(* the validation error, with rejectForeign false it settles with no       *)
(* error; no route is matched against it and no handler is invoked.        *)
C3_ForeignPolicy ==
    \A k \in 1 .. Len(deliveries) :
        LET d == deliveries[k]
        IN  ~PassesShapeCheck(d.value) =>
                /\ Warnings(d)
                       = << LogRecord("warning", assertIsMessage(d.value)[1]) >>
                /\ Calls(d, "matches") = { }
                /\ d.invoked = << >>
                /\ RejectForeignGiven =>
                       /\ d.state = "Rejected"
                       /\ d.error = assertIsMessage(d.value)
                /\ ~RejectForeignGiven =>
                       d.state = "Accepted" /\ d.error = Undefined

\* A malformed value accepted by a router whose routes would match its path.
C3_Witness ==
    \E k \in 1 .. Len(deliveries) :
        /\ ~PassesShapeCheck(deliveries[k].value)
        /\ deliveries[k].value.top = "object"
        /\ MatchingRoutes(deliveries[k]) # { }
        /\ given[1].rejectForeign = Some(FALSE)
        /\ deliveries[k].state = "Accepted"

(* C4: whenever the handler of the matched route fails, at once or after   *)
(* the await, the dispatch fails with that same failure, whatever          *)
(* rejectForeign and rejectUnmatched are.                                  *)
C4_HandlerFailurePropagates ==
    \A k \in 1 .. Len(deliveries) :
        LET d == deliveries[k]
        IN  IsDefined(d.thrown) =>
                d.state = "Rejected" /\ d.error = d.thrown

\* Both flags false, one handler failed at once and one after the await.
C4_Witness ==
    /\ ~router.rejectForeign /\ ~router.rejectUnmatched
    /\ \E j, k \in 1 .. Len(deliveries) :
          /\ IsDefined(deliveries[j].thrown)
          /\ Calls(deliveries[j], "resume") = { }
          /\ IsDefined(deliveries[k].thrown)
          /\ Calls(deliveries[k], "resume") # { }

---------------------------------------------------------------------------
(* Properties of the registry specification. *)

\* The completed init() calls that resolved to the store handle db.
CallsFor(db) == { k \in 1 .. Len(calls) : calls[k].db = db }
IsFirstCall(k) == k = Least(CallsFor(calls[k].db))

(* C5: after any sequence of init(db, options?) calls, the calls for one   *)
(* store handle all return the same Router instance, built from the        *)
(* options of the first of them; one warning is logged for every later     *)
(* call that passes options and none for a later call without; calls for   *)
(* different handles return different instances.                           *)
C5_OneRouterPerHandle ==
    /\ \A j, k \in 1 .. Len(calls) :
          (calls[j].db = calls[k].db) <=> (calls[j].returned = calls[k].returned)
    /\ \A k \in 1 .. Len(calls) :
          IsFirstCall(k) =>
              instances[calls[k].returned]
                  = NewRouter(calls[k].db, calls[k].options, calls[k].rnd)
    /\ warnings
          = Cardinality({ k \in 1 .. Len(calls) :
                             ~IsFirstCall(k) /\ IsDefined(calls[k].options) })

\* Two calls for one handle, the later one with other options, and a call
\* for another handle: one warning.
C5_Witness ==
    \E i, j, k \in 1 .. Len(calls) :
        /\ i < j /\ calls[i].db = calls[j].db
        /\ IsDefined(calls[j].options) /\ calls[j].options # calls[i].options
        /\ calls[k].db # calls[i].db
        /\ warnings = 1

---------------------------------------------------------------------------
(* Properties of the enqueue specification. *)

GivenOptions == OrDefault(given, EmptyOptions)
DlqEnabledGiven == OrDefault(GivenOptions.enabledDlq, FALSE)
DlqPrefixGiven == OrDefault(GivenOptions.dlqPrefix, DEFAULT_DLQ_PREFIX)
ViaRouter(k) == k \in 1 .. Len(queue) /\ queue[k].via = "router"
InitOf(k) == OrDefault(queue[k].init, EmptyInit)
InitKeys(k) == OrDefault(InitOf(k).keysIfUndelivered, << >>)
\* The dead-letter key of an entry: the prefix, then the time of its enqueue.
DlqKey(k) == DlqPrefixGiven \o << Num(queue[k].at) >>

(* C6: with enabledDlq true, any two enqueue calls pass dead-letter keys   *)
(* [dlqPrefix..., t] that differ from each other.                          *)
C6_DistinctDlqKeys ==
    \A j, k \in 1 .. Len(queue) :
        (j # k /\ ViaRouter(j) /\ ViaRouter(k) /\ DlqEnabledGiven) =>
            queue[j].options.keysIfUndelivered[1]
                # queue[k].options.keysIfUndelivered[1]

(* C7: with enabledDlq true the keysIfUndelivered passed to the store is   *)
(* the router's dlqPrefix followed by the enqueue-time timestamp, then the *)
(* keys of init.keysIfUndelivered in order; otherwise it is exactly        *)
(* init.keysIfUndelivered (empty when absent), whatever dlqPrefix is.      *)
C7_KeysIfUndelivered ==
    \A k \in 1 .. Len(queue) :
        ViaRouter(k) =>
            queue[k].options.keysIfUndelivered
                = IF DlqEnabledGiven THEN << DlqKey(k) >> \o InitKeys(k)
                  ELSE InitKeys(k)

\* A DLQ with a custom prefix, a later enqueue time, two keys of the caller.
C7_Witness ==
    \E k \in 1 .. Len(queue) :
        /\ ViaRouter(k)
        /\ IsDefined(GivenOptions.dlqPrefix)
        /\ Len(InitKeys(k)) = 2
        /\ DlqEnabledGiven
        /\ queue[k].at > 0

(* C10: the backoffSchedule and the delay passed to the store are those of *)
(* init when the call gives them and the router's otherwise, and an        *)
(* override leaves the router's own schedule and delay as constructed.     *)
C10_EnqueueOverrides ==
    /\ \A k \in 1 .. Len(queue) :
          ViaRouter(k) =>
              /\ queue[k].options.backoffSchedule
                     = IF IsDefined(InitOf(k).backoffSchedule)
                       THEN InitOf(k).backoffSchedule
                       ELSE router.backoffSchedule
              /\ queue[k].options.delay
                     = IF IsDefined(InitOf(k).delay) THEN InitOf(k).delay
                       ELSE GivenOptions.delay
    /\ router.delay = GivenOptions.delay
    /\ GivenOptions.hasBackoffSchedule =>
          router.backoffSchedule = GivenOptions.backoffSchedule
    /\ ~GivenOptions.hasBackoffSchedule =>
          \E rnd \in Randoms :
              router.backoffSchedule = Some(getBackoffSchedule(rnd))

\* An enqueue that overrides the schedule with [] and the delay with 0 on a
\* router with a schedule and a delay, then one that overrides nothing.
C10_Witness ==
    \E j, k \in 1 .. Len(queue) :
        /\ j < k /\ ViaRouter(j) /\ ViaRouter(k)
        /\ router.delay = Some(7)
        /\ router.backoffSchedule = Some(<< 10, 20 >>)
        /\ InitOf(j).delay = Some(0)
        /\ InitOf(j).backoffSchedule = Some(<< >>)
        /\ queue[k].init = Undefined

---------------------------------------------------------------------------
(* Properties of the queue specification. *)

IsForeign(k) == k \in 1 .. Len(queue) /\ queue[k].via = "foreign"
\* Entry k was enqueued through Router.enqueue of a router with a DLQ.
DlqEntry(k) == ViaRouter(k) /\ DlqEnabledGiven
Status(k, status) == k \in 1 .. Len(queue) /\ queue[k].status = status
MaxDelivered(k) == 1 + Len(ScheduleInEffect(queue[k]))
\* The store wrote entry k under the dead-letter key computed at its enqueue.
DeadLettered(k) ==
    k \in 1 .. Len(queue) /\ [key |-> DlqKey(k), entry |-> k] \in kv
HasPrefix(key, prefix) ==
    Len(key) >= Len(prefix) /\ SubSeq(key, 1, Len(prefix)) = prefix

C8_Deliveries ==
    \A k \in 1 .. Len(queue) :
        DlqEntry(k) =>
            /\ queue[k].delivered <= MaxDelivered(k)
            /\ Status(k, "undelivered") =>
                   DeadLettered(k) /\ queue[k].delivered = MaxDelivered(k)
            /\ DeadLettered(k) => Status(k, "undelivered")

(* C8: a message enqueued through Router.enqueue of a router with          *)
(* enabledDlq is delivered at most 1 + length(backoff schedule in effect)  *)
(* times; when every delivery is rejected it is eventually written under   *)
(* the dead-letter key computed at its enqueue; it is never written there  *)
(* after a delivery that was accepted.                                     *)
C8_RejectedThenDeadLettered ==
    /\ []C8_Deliveries
    /\ \A k \in 1 .. MaxEnqueues :
          (listening /\ DlqEntry(k)) ~> (Status(k, "done") \/ DeadLettered(k))

\* A message of the router that was retried and then dead-lettered.
C8_Witness ==
    \E k \in 1 .. Len(queue) :
        /\ DlqEntry(k)
        /\ queue[k].delivered >= 2
        /\ DeadLettered(k)

(* C9: with rejectForeign and enabledDlq, a malformed message enqueued by  *)
(* another party is retried as the backoff schedule says and is then moved *)
(* to the dead letter queue.                                               *)
C9_ForeignDeadLettered ==
    \A k \in 1 .. Len(queue) :
        ( /\ IsForeign(k)
          /\ ~PassesShapeCheck(queue[k].value)
          /\ router.rejectForeign
          /\ DlqEnabledGiven
          /\ Status(k, "undelivered") ) =>
            /\ queue[k].delivered = MaxDelivered(k)
            /\ \E w \in kv : w.entry = k /\ HasPrefix(w.key, DlqPrefixGiven)

---------------------------------------------------------------------------
(* The schedule specification: Routers constructed one after another, each *)
(* with random numbers of its own, and enqueue() calls on any of them.     *)

ScheduleOptions ==
    { Undefined, Some(EmptyOptions),
      Some(RouterOptions(Undefined, Undefined, Undefined, TRUE,
                         Some(<< 10 >>), Undefined, Undefined)),
      Some(RouterOptions(Undefined, Undefined, Undefined, TRUE, Undefined,
                         Undefined, Undefined)) }
ScheduleRandoms ==
    { [i \in 1 .. Len(BACKOFF_SCHEDULE) |-> 0],
      [i \in 1 .. Len(BACKOFF_SCHEDULE) |->
          IF i % 2 = 0 THEN 0 ELSE RandomDenominator - 1] }
ScheduleInits ==
    { Undefined,
      Some(EnqueueInit(Undefined, Undefined, Undefined, Undefined,
                       Some(<< 3 >>))) }

\* new Router(db, options), on a store handle of its own.
Construct(options, rnd) ==
    /\ Len(instances) < MaxRouters
    /\ instances' = Append(instances,
                           NewRouter(Len(instances) + 1, options, rnd))
    /\ calls' = Append(calls,
                       [db |-> Len(instances) + 1, options |-> options,
                        rnd |-> rnd, returned |-> Len(instances) + 1])
    /\ UNCHANGED << routerMap, handles, pending, warnings >>
    /\ UNCHANGED << given, router, routes, onCalls, deliveries >>
    /\ UNCHANGED queueVars
    /\ UNCHANGED << registrations, listenVars, arrays >>

\* instances[i].enqueue(path, init)
EnqueueOn(i, path, init) ==
    /\ i \in 1 .. Len(instances)
    /\ Len(queue) < MaxEnqueues
    /\ queue' = Append(queue,
                       [on |-> i]
                           @@ Entry(enqueue(instances[i], path, init, now),
                                    "router", init, now))
    /\ UNCHANGED << given, router, routes, onCalls, deliveries, now, kv,
                    listening >>
    /\ UNCHANGED registryVars
    /\ UNCHANGED << registrations, listenVars, arrays >>

NextSchedule ==
    \/ \E options \in ScheduleOptions, rnd \in ScheduleRandoms :
          Construct(options, rnd)
    \/ \E i \in 1 .. MaxRouters, path \in EnqueuePaths,
          init \in ScheduleInits : EnqueueOn(i, path, init)

SpecSchedule == InitRegistry /\ [][NextSchedule]_vars

---------------------------------------------------------------------------
(* Properties of the schedule specification. *)

\* Router i was constructed with no backoffSchedule key in its options.
NoScheduleGiven(i) ==
    ~OrDefault(calls[i].options, EmptyOptions).hasBackoffSchedule
\* The schedule getBackoffSchedule() returned in the constructor of router i.
GeneratedSchedule(i) == Some(getBackoffSchedule(calls[i].rnd))

(* C11: a Router constructed without a schedule holds, for as long as it   *)
(* lives, the one schedule its constructor generated from random numbers   *)
(* of its own, and every enqueue on it without an override passes exactly  *)
(* that schedule.                                                          *)
C11_OneScheduleForLife ==
    /\ \A i \in 1 .. Len(instances) :
          NoScheduleGiven(i) =>
              instances[i].backoffSchedule = GeneratedSchedule(i)
    /\ \A k \in 1 .. Len(queue) :
          (NoScheduleGiven(queue[k].on) /\ ~IsDefined(InitOf(k).backoffSchedule))
              => queue[k].options.backoffSchedule
                     = GeneratedSchedule(queue[k].on)

\* Two routers with different generated schedules; two enqueues without an
\* override on the first of them.
C11_Witness ==
    /\ Len(instances) = 2 /\ Len(queue) = 2
    /\ NoScheduleGiven(1) /\ NoScheduleGiven(2)
    /\ instances[1].backoffSchedule # instances[2].backoffSchedule
    /\ \A k \in 1 .. 2 : queue[k].on = 1 /\ queue[k].init = Undefined

---------------------------------------------------------------------------
(* Further properties of the dispatch specification. *)

Compiles(pattern) == ~pathToRegexp(pattern).throws

(* C13: an on() call with a malformed pattern throws and leaves #routes as *)
(* it was; every route in #routes holds the matcher compiled from its      *)
(* pattern; and a dispatch fails only with the validation error, the       *)
(* no-match error or what the handler threw.                               *)
C13_MalformedPatternFailsFast ==
    /\ \A k \in 1 .. Len(registrations) :
          LET call == registrations[k]
          IN  /\ call.threw <=> ~Compiles(call.path)
              /\ call.threw => call.after = call.before
    /\ \A i \in 1 .. Len(routes) :
          /\ Compiles(routes[i].path)
          /\ routes[i].regexp = pathToRegexp(routes[i].path).regexp
          /\ routes[i].keys = pathToRegexp(routes[i].path).keys
    /\ \A k \in 1 .. Len(deliveries) :
          LET d == deliveries[k]
          IN  /\ \A i \in 1 .. Len(d.seen) : Compiles(d.seen[i].path)
              /\ IsDefined(d.error) =>
                     \/ d.error = assertIsMessage(d.value)
                     \/ /\ MatchingRoutes(d) = { }
                        /\ d.error = Some("No route matched message")
                     \/ d.error = d.thrown

\* A malformed pattern was refused by a router that had a route, and that
\* route was dispatched to.
C13_Witness ==
    /\ \E k \in 1 .. Len(registrations) :
          /\ registrations[k].threw
          /\ registrations[k].before # << >>
    /\ Len(routes) = 1
    /\ \E k \in 1 .. Len(deliveries) :
          /\ Len(deliveries[k].seen) = 1
          /\ deliveries[k].invoked # << >>

\* The parameters of a path under a pattern: every named parameter of the
\* pattern, with the decoded segment of the path at its place.
ParamPlaces(pattern) == { i \in 1 .. Len(pattern) : pattern[i].kind = "param" }
ParamsOf(pattern, path) ==
    [name \in { pattern[i].name : i \in ParamPlaces(pattern) } |->
        decodeComponent(
            path[CHOOSE i \in ParamPlaces(pattern) : pattern[i].name = name])]
\* The route delivery d was dispatched to.
DispatchedTo(d) == d.trace[Least(Calls(d, "handle"))].route

(* C18: the Context a handler receives holds the path, and the parameters  *)
(* extracted from the path, of its own delivery, and keeps them while its  *)
(* handler is suspended and other deliveries are matched and dispatched to *)
(* the same route.                                                         *)
C18_ParamsOfOwnDelivery ==
    \A k \in 1 .. Len(deliveries) :
        LET d == deliveries[k]
        IN  d.invoked # << >> =>
                /\ d.context[1].path = d.value.path
                /\ d.context[1].params
                       = ParamsOf(d.seen[DispatchedTo(d)].path, d.value.path)

\* A delivery whose handler is suspended while a later delivery with
\* another path was dispatched to the same parameterised route.
C18_Witness ==
    \E j, k \in 1 .. Len(deliveries) :
        /\ j < k
        /\ deliveries[j].state = "Dispatching"
        /\ deliveries[k].invoked # << >>
        /\ deliveries[j].invoked = deliveries[k].invoked
        /\ deliveries[j].value.path # deliveries[k].value.path
        /\ deliveries[j].context[1].params # deliveries[k].context[1].params

---------------------------------------------------------------------------
(* The validation specification: one Router, with or without a route that  *)
(* matches every path of one segment, and one delivery of any value.       *)

\* What the store may deliver: a value that is not a plain object, or an
\* object with any combination of path, body and headers properties.
NonObjects == { "null", "string", "number", "undefined", "array" }
PathKinds == { "missing", "string", "number", "undefined", "null" }
Bodies == { "missing", "undefined", "number", "null" }
HeaderKinds ==
    { "missing", "object", "array", "null", "string", "number", "undefined" }
AnyValues ==
    { NonObject(top) : top \in NonObjects }
        \cup { Value("object", k, IF k = "string" THEN << "a" >> ELSE NoPath,
                     b, h) :
                 k \in PathKinds, b \in Bodies, h \in HeaderKinds }

InitValidate ==
    /\ \E options \in DispatchOptions, rnd \in InitRandoms :
          /\ given = Some(options)
          /\ router = NewRouter(1, Some(options), rnd)
    /\ routes \in QueueRoutes
    /\ onCalls = Len(routes)
    /\ registrations
          = [i \in 1 .. Len(routes) |->
                Registration(<< >>, routes[i].path, routes[i].handler)]
    /\ deliveries = << >>
    /\ NoQueue
    /\ NoRegistry
    /\ NoListen
    /\ NoArrays

\* The store calls Router.#handler, once.
ValidateDeliver(value, sync, thrown) ==
    /\ deliveries = << >>
    /\ Deliver(value, sync, thrown)

NextValidate ==
    \/ \E value \in AnyValues, sync \in HandlerSyncs,
          thrown \in HandlerErrors : ValidateDeliver(value, sync, thrown)
    \/ \E d \in 1 .. MaxDeliveries, thrown \in Maybe(HandlerErrors) :
          Settle(d, thrown)

SpecValidate == InitValidate /\ [][NextValidate]_vars

---------------------------------------------------------------------------
(* Properties of the validation specification. *)

\* An object-like value: an object or an array, and not null.
ObjectLike(token) == token \in { "object", "array" }
\* The Message shape: a string path, a body key, object-like headers.
HasMessageShape(value) ==
    /\ value.top = "object"
    /\ value.pathKind = "string"
    /\ value.body # "missing"
    /\ ObjectLike(value.headers)

(* C14: a delivered value passes validation if and only if it has a string *)
(* path, a body key and object-like headers; every other value, null       *)
(* headers included, is handled as malformed and no route is matched       *)
(* against it.                                                             *)
C14_ShapeCheckClassifies ==
    \A k \in 1 .. Len(deliveries) :
        LET d == deliveries[k]
        IN  /\ PassesShapeCheck(d.value) <=> HasMessageShape(d.value)
            /\ ~HasMessageShape(d.value) =>
                   /\ Calls(d, "matches") = { }
                   /\ d.invoked = << >>

---------------------------------------------------------------------------
(* The backoff specification: calls of getBackoffSchedule(), each with the *)
(* random numbers Math.random() returns to it.                             *)

\* Every combination of the least and the greatest random number, and the
\* same number in between for every element.
BackoffRandoms ==
    Randoms \cup { [i \in 1 .. Len(BACKOFF_SCHEDULE) |-> r] :
                     r \in { 1, RandomDenominator \div 2 } }

BackoffCall(rnd) ==
    /\ Len(calls) < MaxBackoffCalls
    /\ calls' = Append(calls,
                       [rnd |-> rnd, returned |-> getBackoffSchedule(rnd)])
    /\ UNCHANGED << routerMap, instances, handles, pending, warnings >>
    /\ UNCHANGED << given, router, routes, onCalls, deliveries >>
    /\ UNCHANGED queueVars
    /\ UNCHANGED << registrations, listenVars, arrays >>

NextBackoff == \E rnd \in BackoffRandoms : BackoffCall(rnd)

SpecBackoff == InitRegistry /\ [][NextBackoff]_vars

---------------------------------------------------------------------------
(* Properties of the backoff specification. *)

Jitter(k, i) == calls[k].returned[i] - BACKOFF_SCHEDULE[i]

---------------------------------------------------------------------------
(* The replacement specification: one Router, on() calls that may name a   *)
(* pattern again, and one delivery of a value.                             *)

\* Two patterns that both match the path "a".
ReplacePatterns == { << Lit("a") >>, << Param("id") >> }

\* router.on(path, handler)
ReplaceOn(path, handler) ==
    /\ onCalls < MaxReplaceOn
    /\ handler = Handlers[onCalls + 1]
    /\ onCalls' = onCalls + 1
    /\ routes' = on(routes, path, handler)
    /\ registrations' = Append(registrations,
                               Registration(routes, path, handler))
    /\ UNCHANGED << given, router, deliveries, queue, kv, now, listening >>
    /\ UNCHANGED registryVars
    /\ UNCHANGED << listenVars, arrays >>

NextReplace ==
    \/ \E path \in ReplacePatterns, handler \in Range(Handlers) :
          ReplaceOn(path, handler)
    \/ \E value \in DeliveredValues, sync \in HandlerSyncs,
          thrown \in HandlerErrors : ValidateDeliver(value, sync, thrown)
    \/ \E d \in 1 .. MaxDeliveries, thrown \in Maybe(HandlerErrors) :
          Settle(d, thrown)

SpecReplace == Init /\ [][NextReplace]_vars

---------------------------------------------------------------------------
(* Properties of the replacement specification. *)

\* The on() calls that registered the pattern.
RegistrationsOf(pattern) ==
    { k \in 1 .. Len(registrations) :
        registrations[k].path = pattern /\ ~registrations[k].threw }
Greatest(S) == CHOOSE x \in S : \A y \in S : y <= x
FirstRegistration(pattern) == Least(RegistrationsOf(pattern))
LastRegistration(pattern) == Greatest(RegistrationsOf(pattern))
RegisteredPatterns ==
    { registrations[k].path : k \in { j \in 1 .. Len(registrations) :
                                         ~registrations[j].threw } }
\* Of the registered patterns that match the path, the one registered first.
WinningPattern(path) ==
    CHOOSE p \in RegisteredPatterns :
        /\ PatternMatches(p, path)
        /\ \A q \in RegisteredPatterns :
              PatternMatches(q, path) =>
                  FirstRegistration(p) <= FirstRegistration(q)

(* C19: #routes holds one route for every registered pattern, with the     *)
(* handler of the last on() call for that pattern and at the position of   *)
(* the first; a message is dispatched to the handler last registered for   *)
(* the matching pattern that was registered first.                         *)
C19_ReplaceKeepsPosition ==
    /\ { routes[i].path : i \in 1 .. Len(routes) } = RegisteredPatterns
    /\ \A i, j \in 1 .. Len(routes) :
          /\ i # j => routes[i].path # routes[j].path
          /\ i < j => FirstRegistration(routes[i].path)
                          < FirstRegistration(routes[j].path)
    /\ \A i \in 1 .. Len(routes) :
          routes[i].handler
              = registrations[LastRegistration(routes[i].path)].handler
    /\ \A k \in 1 .. Len(deliveries) :
          LET d == deliveries[k]
          IN  ( /\ d.seen = Registered(routes)
                /\ PassesShapeCheck(d.value)
                /\ MatchingRoutes(d) # { } ) =>
                  d.invoked
                      = << registrations[
                              LastRegistration(WinningPattern(d.value.path))
                           ].handler >>

\* on(P, h1), on(Q, h2), on(P, h3), then a message that matches P and Q is
\* dispatched to h3.
C19_Witness ==
    /\ Len(registrations) = 3
    /\ registrations[1].path = registrations[3].path
    /\ registrations[2].path # registrations[1].path
    /\ \E k \in 1 .. Len(deliveries) :
          /\ Len(deliveries[k].seen) = 2
          /\ Cardinality(MatchingRoutes(deliveries[k])) = 2
          /\ deliveries[k].invoked = << Handlers[3] >>

---------------------------------------------------------------------------
(* Further properties of the registry specification. *)

\* Completed calls j and k were both started before either had resumed
\* from `await resolveDb(db)`.
StartedTogether(j, k) == calls[j].after < k /\ calls[k].after < j

(* C20: init() calls for one store handle that were all started before any *)
(* of them resumed return the same Router instance, and the Router         *)
(* constructor has run once for every store handle init() has completed    *)
(* for.                                                                    *)
C20_ConcurrentInitOneRouter ==
    /\ \A j, k \in 1 .. Len(calls) :
          (calls[j].db = calls[k].db /\ StartedTogether(j, k)) =>
              calls[j].returned = calls[k].returned
    /\ Len(instances) = Cardinality({ calls[k].db : k \in 1 .. Len(calls) })
    /\ \A db \in DOMAIN routerMap :
          Cardinality({ i \in 1 .. Len(instances) : instances[i].db = db }) = 1

\* Three init() calls for one store handle, all started before any resumed,
\* the first two with different options, have all completed.
C20_Witness ==
    /\ Len(calls) = 3
    /\ \A j, k \in 1 .. 3 :
          /\ calls[j].db = calls[k].db
          /\ StartedTogether(j, k)
    /\ calls[1].options # calls[2].options
    /\ Len(instances) = 1

---------------------------------------------------------------------------
(* Properties of one delivery, under the validation specification (the     *)
(* states of a delivery) and the replacement specification (the order of   *)
(* its calls).                                                             *)

\* The states a delivery went through, in order: Validating; Matching once
\* assertIsMessage returned; Dispatching once a handler was called; and the
\* state it ended in, once Router.#handler returned or threw.
StatePath(d) ==
    << "Validating" >>
        \o (IF d.trace[1].ok THEN << "Matching" >> ELSE << >>)
        \o (IF Calls(d, "handle") # { } THEN << "Dispatching" >> ELSE << >>)
        \o (IF d.state \in { "Accepted", "Rejected" } THEN << d.state >>
            ELSE << >>)
Transitions(d) ==
    { << StatePath(d)[i], StatePath(d)[i + 1] >> :
        i \in 1 .. Len(StatePath(d)) - 1 }
Took(d, from, to) == << from, to >> \in Transitions(d)

\* The transitions of the state machine as stated.
StatedTransitions ==
    { << "Validating", "Rejected" >>, << "Validating", "Matching" >>,
      << "Matching", "Dispatching" >>, << "Matching", "Rejected" >>,
      << "Matching", "Accepted" >>, << "Dispatching", "Accepted" >>,
      << "Dispatching", "Rejected" >> }

\* Each transition is taken under its condition only.
TransitionConditions(d) ==
    /\ Took(d, "Validating", "Matching") => PassesShapeCheck(d.value)
    /\ Took(d, "Validating", "Rejected") =>
           ~PassesShapeCheck(d.value) /\ router.rejectForeign
    /\ Took(d, "Validating", "Accepted") =>
           ~PassesShapeCheck(d.value) /\ ~router.rejectForeign
    /\ Took(d, "Matching", "Dispatching") =>
           /\ MatchingRoutes(d) # { }
           /\ \A e \in Calls(d, "handle") :
                 d.trace[e].route = Least(MatchingRoutes(d))
    /\ Took(d, "Matching", "Rejected") =>
           MatchingRoutes(d) = { } /\ router.rejectUnmatched
    /\ Took(d, "Matching", "Accepted") =>
           MatchingRoutes(d) = { } /\ ~router.rejectUnmatched
    /\ Took(d, "Dispatching", "Accepted") => d.thrown = Undefined
    /\ Took(d, "Dispatching", "Rejected") => IsDefined(d.thrown)

(* C16, as stated: every transition of a delivery is one of Validating to  *)
(* Rejected or Matching, Matching to Dispatching, Rejected or Accepted,    *)
(* Dispatching to Accepted or Rejected.                                    *)
C16_StatedTransitionsOnly ==
    \A k \in 1 .. Len(deliveries) :
        Transitions(deliveries[k]) \subseteq StatedTransitions

(* C16, amended: every transition of a delivery is one of the stated ones  *)
(* or Validating to Accepted, which a malformed value takes when           *)
(* rejectForeign is false; each transition is taken under its condition    *)
(* only, and a delivery is in one of the five states and ends in Accepted  *)
(* or Rejected.                                                            *)
C16_Transitions ==
    \A k \in 1 .. Len(deliveries) :
        LET d == deliveries[k]
        IN  /\ Transitions(d) \subseteq
                   StatedTransitions \cup { << "Validating", "Accepted" >> }
            /\ TransitionConditions(d)
            /\ d.state \in { "Dispatching", "Accepted", "Rejected" }
            /\ d.state = "Dispatching" =>
                   StatePath(d) = << "Validating", "Matching", "Dispatching" >>

\* A malformed value that went from Validating to Accepted on a router
\* that has a route.
C16_Witness ==
    \E k \in 1 .. Len(deliveries) :
        /\ StatePath(deliveries[k]) = << "Validating", "Accepted" >>
        /\ deliveries[k].seen # << >>
        /\ ~router.rejectForeign

\* The e-th call of delivery d is a call of op.
IsCall(d, e, op) == e \in 1 .. Len(d.trace) /\ d.trace[e].op = op

(* C17: in every delivery the shape check comes first; matches() is called *)
(* on a route only after the check passed, on the routes in order; and a   *)
(* handler is called only right after matches() on its own route returned  *)
(* true for the path of that delivery.                                     *)
C17_ValidateMatchDispatch ==
    \A k \in 1 .. Len(deliveries) :
        LET d == deliveries[k]
        IN  /\ IsCall(d, 1, "assertIsMessage")
            /\ Calls(d, "assertIsMessage") = { 1 }
            /\ d.trace[1].ok = PassesShapeCheck(d.value)
            /\ \A e \in Calls(d, "matches") :
                  /\ d.trace[1].ok
                  /\ d.trace[e].route = e - 1
                  /\ d.trace[e].ok
                         = PatternMatches(d.seen[e - 1].path, d.value.path)
            /\ \A e \in Calls(d, "handle") :
                  /\ IsCall(d, e - 1, "matches")
                  /\ d.trace[e - 1].ok
                  /\ d.trace[e - 1].route = d.trace[e].route
                  /\ d.invoked = << d.seen[d.trace[e].route].handler >>
            /\ d.invoked # << >> => Calls(d, "handle") # { }

\* A delivery that was checked, did not match the first route, matched the
\* second and was dispatched to it.
C17_Witness ==
    \E k \in 1 .. Len(deliveries) :
        LET d == deliveries[k]
        IN  /\ Len(d.trace) >= 4
            /\ IsCall(d, 2, "matches") /\ ~d.trace[2].ok
            /\ IsCall(d, 3, "matches") /\ d.trace[3].ok
            /\ IsCall(d, 4, "handle") /\ d.trace[4].route = 2

---------------------------------------------------------------------------
(* The listen specification: one Router, an AbortController of the caller,  *)
(* listen() with or without its signal, and the store, which delivers to   *)
(* Router.#handler while its handle is open and ends listenQueue once the  *)
(* handle is closed.                                                       *)

\* abortController.abort(): the signal becomes aborted and its "abort"
\* listeners run, each of which is `() => this.#db.close()`.
Abort ==
    /\ ~aborted
    /\ aborted' = TRUE
    /\ closed' = (closed \/ abortListeners > 0)
    /\ UNCHANGED << abortListeners, settled, registrations, arrays >>
    /\ UNCHANGED << given, router, routes, onCalls, deliveries >>
    /\ UNCHANGED queueVars
    /\ UNCHANGED registryVars

\* router.listen(options): with options.signal, an "abort" listener is added
\* to it (which an already aborted signal never runs), and in either case
\* listenQueue(#handler) is called.
ListenWith(signal) ==
    /\ ~listening
    /\ listening' = TRUE
    /\ abortListeners' = IF signal THEN abortListeners + 1 ELSE abortListeners
    /\ UNCHANGED << aborted, closed, settled, registrations, arrays >>
    /\ UNCHANGED << given, router, routes, onCalls, deliveries, now, queue,
                    kv >>
    /\ UNCHANGED registryVars

\* The store delivers a value while its handle is open.
ListenDeliver(value, sync, thrown) ==
    /\ listening
    /\ ~closed
    /\ Deliver(value, sync, thrown)

\* The promise listenQueue returned settles once the handle is closed.
ListenQueueEnds ==
    /\ listening
    /\ closed
    /\ ~settled
    /\ settled' = TRUE
    /\ UNCHANGED << aborted, abortListeners, closed, registrations,
                    arrays >>
    /\ UNCHANGED << given, router, routes, onCalls, deliveries >>
    /\ UNCHANGED queueVars
    /\ UNCHANGED registryVars

NextListen ==
    \/ Abort
    \/ \E signal \in BOOLEAN : ListenWith(signal)
    \/ \E value \in DeliveredValues, sync \in HandlerSyncs,
          thrown \in HandlerErrors : ListenDeliver(value, sync, thrown)
    \/ \E d \in 1 .. MaxDeliveries, thrown \in Maybe(HandlerErrors) :
          Settle(d, thrown)
    \/ ListenQueueEnds

SpecListen == InitQueue /\ [][NextListen]_vars

---------------------------------------------------------------------------
(* Properties of the listen specification. *)

\* listen() was called with the caller's signal in its options.
SignalSupplied == listening /\ abortListeners > 0

(* C12: when an abort signal was supplied to listen(), then whenever that  *)
(* signal is aborted the store handle is closed.                           *)
C12_AbortedMeansClosed == (SignalSupplied /\ aborted) => closed

---------------------------------------------------------------------------
(* The lifetime specification: one Router, the array objects its caller    *)
(* passed in the constructor options or got from its getters, which the    *)
(* caller may mutate at any time, and on(), enqueue(), listen() and one    *)
(* delivery.                                                               *)

MaxGets == 1

\* An array object the caller holds.  `field` names the private field of
\* the Router that is this very object, "none" when no field is; `of` is
\* what its elements are.
ArrayObject(field, of, value) == [field |-> field, of |-> of, value |-> value]

\* The arrays of the constructor options.  The constructor assigns
\* options.backoffSchedule to #backoffSchedule and, with enabledDlq, the
\* given dlqPrefix to #dlqPrefix: the objects themselves, not copies.
PassedArrays(options) ==
    LET opts == OrDefault(options, EmptyOptions)
    IN  (IF opts.hasBackoffSchedule /\ IsDefined(opts.backoffSchedule)
         THEN << ArrayObject("backoffSchedule", "number",
                             opts.backoffSchedule[1]) >>
         ELSE << >>)
        \o (IF IsDefined(opts.dlqPrefix)
            THEN << ArrayObject(IF OrDefault(opts.enabledDlq, FALSE)
                                THEN "dlqPrefix" ELSE "none",
                                "key part", opts.dlqPrefix[1]) >>
            ELSE << >>)

\* get backoffSchedule / get dlqPrefix: a new array with the elements of
\* the field, or undefined.
backoffSchedule(r) ==
    IF IsDefined(r.backoffSchedule)
    THEN Some(ArrayObject("none", "number", r.backoffSchedule[1]))
    ELSE Undefined
dlqPrefix(r) ==
    IF IsDefined(r.dlqPrefix)
    THEN Some(ArrayObject("none", "key part", r.dlqPrefix[1]))
    ELSE Undefined

LifetimeOptions ==
    { Undefined,
      Some(RouterOptions(Some(TRUE), Some(<< Str("p") >>), Some(5), TRUE,
                         Some(<< 10 >>), Some(FALSE), Undefined)),
      Some(RouterOptions(Some(TRUE), Undefined, Undefined, FALSE, Undefined,
                         Undefined, Some(FALSE))) }
LifetimeRandoms == NoRandoms
LifetimeInits ==
    { Undefined,
      Some(EnqueueInit(Undefined, Undefined, Some(9), Undefined,
                       Some(<< 3 >>))) }
LifetimePatterns == { << Lit("a") >> }
LifetimeValues ==
    { NonObject("string"), Message(<< "a" >>, "number", "object") }

InitLifetime ==
    /\ \E options \in LifetimeOptions :
          /\ given = options
          /\ router = NewRouter(1, options, LifetimeRandoms)
          /\ arrays = PassedArrays(options)
    /\ routes = << >>
    /\ onCalls = 0
    /\ registrations = << >>
    /\ deliveries = << >>
    /\ NoQueue
    /\ NoRegistry
    /\ NoListen

\* The caller reads router.backoffSchedule or router.dlqPrefix and keeps
\* the array it got.
Get(returned) ==
    /\ Len(arrays) < Len(PassedArrays(given)) + MaxGets
    /\ IsDefined(returned)
    /\ arrays' = Append(arrays, returned[1])
    /\ UNCHANGED << given, router, registrations >>
    /\ UNCHANGED dispatchVars
    /\ UNCHANGED queueVars
    /\ UNCHANGED registryVars
    /\ UNCHANGED listenVars

\* The caller mutates an array it holds: array.length = 0.  A field of the
\* Router that is this object sees the mutation.
Mutate(k) ==
    /\ k \in 1 .. Len(arrays)
    /\ arrays[k].value # << >>
    /\ arrays' = [arrays EXCEPT ![k].value = << >>]
    /\ router' = IF arrays[k].field = "none" THEN router
                 ELSE [router EXCEPT ![arrays[k].field] = Some(<< >>)]
    /\ UNCHANGED << given, registrations >>
    /\ UNCHANGED dispatchVars
    /\ UNCHANGED queueVars
    /\ UNCHANGED registryVars
    /\ UNCHANGED listenVars

NextLifetime ==
    \/ Get(backoffSchedule(router))
    \/ Get(dlqPrefix(router))
    \/ \E k \in 1 .. Len(arrays) : Mutate(k)
    \/ \E path \in LifetimePatterns, handler \in Range(Handlers) :
          On(path, handler)
    \/ \E path \in EnqueuePaths, init \in LifetimeInits : Enqueue(path, init)
    \/ \E signal \in BOOLEAN : ListenWith(signal)
    \/ \E value \in LifetimeValues, sync \in HandlerSyncs,
          thrown \in HandlerErrors : ValidateDeliver(value, sync, thrown)
    \/ \E d \in 1 .. MaxDeliveries, thrown \in Maybe(HandlerErrors) :
          Settle(d, thrown)

SpecLifetime == InitLifetime /\ [][NextLifetime]_vars

---------------------------------------------------------------------------
(* Properties of the lifetime specification. *)

\* The private fields the constructor set from the options it was given.
ConstructedRouter == NewRouter(1, given, LifetimeRandoms)

\* No array of the constructor options has been mutated since construction.
PassedArraysIntact ==
    \A k \in 1 .. Len(PassedArrays(given)) : arrays[k] = PassedArrays(given)[k]

(* C21: the options of a Router are fixed for its lifetime: whatever the   *)
(* caller did before, the arrays of the getters and of the constructor     *)
(* options mutated included, every enqueue passes the schedule, delay and  *)
(* dead-letter prefix given at construction, and every delivery is settled *)
(* by the reject flags given at construction.                              *)
C21_OptionsFixedForLife ==
    /\ \A k \in 1 .. Len(queue) :
          queue[k].options
              = enqueue(ConstructedRouter, queue[k].value.path, queue[k].init,
                        queue[k].at).options
    /\ \A d \in 1 .. Len(deliveries) :
          LET run == deliveries[d]
          IN  /\ (~PassesShapeCheck(run.value) /\ run.state = "Accepted")
                     => ~ConstructedRouter.rejectForeign
              /\ (~PassesShapeCheck(run.value) /\ run.state = "Rejected")
                     => ConstructedRouter.rejectForeign
              /\ (PassesShapeCheck(run.value) /\ Calls(run, "handle") = { }
                      /\ run.state = "Accepted")
                     => ~ConstructedRouter.rejectUnmatched
              /\ (PassesShapeCheck(run.value) /\ Calls(run, "handle") = { }
                      /\ run.state = "Rejected")
                     => ConstructedRouter.rejectUnmatched

\* What does hold: as long as the caller leaves the arrays it passed to the
\* constructor alone, the options are the ones given at construction, the
\* arrays of the getters mutated or not.
FixedWhilePassedArraysIntact == PassedArraysIntact => C21_OptionsFixedForLife

---------------------------------------------------------------------------
(* The shape specification: one Router, enqueue() calls with every kind of *)
(* init, and the store, which persists each value and delivers it to       *)
(* Router.#handler.                                                        *)

\* What the store hands to the handler for a property it persisted: the
\* property is kept with its value, an undefined one included (the key
\* stays); a key that was not there is not there.
Persisted(token) ==
    CASE token = "undefined" -> "undefined"
      [] token = "missing" -> "missing"
      [] OTHER -> token
\* The value listenQueue delivers for a value db.enqueue was given.
Dequeued(value) ==
    Value(value.top, Persisted(value.pathKind), value.path,
          Persisted(value.body), Persisted(value.headers))

ShapeOptions ==
    { RouterOptions(dlq, Undefined, Undefined, TRUE, Some(<< 10 >>), flag,
                    flag) :
        dlq \in { Undefined, Some(TRUE) }, flag \in { Undefined, Some(FALSE) } }
\* body absent, undefined or present; headers absent or present; no
\* override or every override.
ShapeInits ==
    { Undefined }
        \cup { Some(EnqueueInit(body, headers, o[1], o[2], o[3])) :
                 body \in Maybe({ "undefined", "number", "null" }),
                 headers \in Maybe({ "object" }),
                 o \in { << Undefined, Undefined, Undefined >>,
                         << Some(0), Some(<< Key1 >>), Some(<< >>) >> } }

InitShape ==
    /\ \E options \in ShapeOptions :
          /\ given = Some(options)
          /\ router = NewRouter(1, Some(options), NoRandoms)
    /\ routes \in QueueRoutes
    /\ onCalls = Len(routes)
    /\ registrations
          = [i \in 1 .. Len(routes) |->
                Registration(<< >>, routes[i].path, routes[i].handler)]
    /\ deliveries = << >>
    /\ NoQueue
    /\ NoRegistry
    /\ NoListen
    /\ NoArrays

\* The store delivers entry e to Router.#handler.
ShapeDeliver(e, sync, thrown) ==
    /\ listening
    /\ e \in 1 .. Len(queue)
    /\ ValidateDeliver(Dequeued(queue[e].value), sync, thrown)

NextShape ==
    \/ \E path \in EnqueuePaths, init \in ShapeInits : Enqueue(path, init)
    \/ Listen
    \/ \E e \in 1 .. MaxEnqueues, sync \in HandlerSyncs,
          thrown \in HandlerErrors : ShapeDeliver(e, sync, thrown)
    \/ \E d \in 1 .. MaxDeliveries, thrown \in Maybe(HandlerErrors) :
          Settle(d, thrown)

SpecShape == InitShape /\ [][NextShape]_vars

---------------------------------------------------------------------------
(* Properties of the shape specification. *)

\* Delivery d was classified as foreign: the shape check threw.
ClassifiedForeign(d) == ~d.trace[1].ok

(* C22: every message Router.enqueue produces, whatever its init, passes   *)
(* the shape validation when it is dequeued: no delivery of a value that   *)
(* was enqueued through the router is classified as foreign.               *)
C22_EnqueuedNeverForeign ==
    /\ \A k \in 1 .. Len(queue) :
          ViaRouter(k) => PassesShapeCheck(Dequeued(queue[k].value))
    /\ \A d \in 1 .. Len(deliveries) :
          /\ ~ClassifiedForeign(deliveries[d])
          /\ deliveries[d].error
                 \notin { Some("Message must be an object."),
                          Some("Message must have a string path."),
                          Some("Message must have a body."),
                          Some("Message must have headers.") }

\* An enqueue with no init at all and one whose init has an undefined body
\* and no headers; one of them was delivered and reached route matching.
C22_Witness ==
    /\ \E k \in 1 .. Len(queue) : queue[k].init = Undefined
    /\ \E k \in 1 .. Len(queue) :
          /\ IsDefined(queue[k].init)
          /\ queue[k].init[1].body = Some("undefined")
          /\ queue[k].init[1].headers = Undefined
    /\ \E d \in 1 .. Len(deliveries) :
          /\ deliveries[d].value.body = "undefined"
          /\ deliveries[d].trace[1] = Event("assertIsMessage", 0, TRUE)
          /\ Len(deliveries[d].trace) > 1

---------------------------------------------------------------------------
(* The match specification: one Router with one route, whose pattern has a *)
(* required or an optional parameter, and deliveries of well-formed        *)
(* messages whose paths match it or not, with escapes that decode or not.  *)

MatchPatterns ==
    { << Lit("a"), Param("id") >>, << Lit("a"), Optional("id") >> }
MatchPaths ==
    { << "a", "%62" >>, << "a", "%E0%A4%A" >>, << "a" >>, << "b", "c" >> }

InitMatch ==
    /\ given = Undefined
    /\ router = NewRouter(1, Undefined, NoRandoms)
    /\ \E pattern \in MatchPatterns :
          /\ routes = on(<< >>, pattern, Handlers[1])
          /\ registrations = << Registration(<< >>, pattern, Handlers[1]) >>
    /\ onCalls = 1
    /\ deliveries = << >>
    /\ NoQueue
    /\ NoRegistry
    /\ NoListen
    /\ NoArrays

\* The store delivers a message with this path to Router.#handler.
MatchDeliver(path, sync, thrown) ==
    Deliver(Message(path, "number", "object"), sync, thrown)

NextMatch ==
    \/ \E path \in MatchPaths, sync \in HandlerSyncs, thrown \in HandlerErrors :
          MatchDeliver(path, sync, thrown)
    \/ \E d \in 1 .. MaxDeliveries, thrown \in Maybe(HandlerErrors) :
          Settle(d, thrown)

SpecMatch == InitMatch /\ [][NextMatch]_vars

---------------------------------------------------------------------------
(* Properties of the match specification. *)

\* The places of the named parameters of a pattern, and the place of one.
CapturePlaces(pattern) ==
    { i \in 1 .. Len(pattern) : pattern[i].kind \in { "param", "optional" } }
PlaceOf(pattern, name) ==
    CHOOSE i \in CapturePlaces(pattern) : pattern[i].name = name
\* The URI-decoded segment, or the segment itself when it does not decode.
DecodedOrRaw(segment) ==
    IF decodeURIComponent(segment).throws THEN segment
    ELSE decodeURIComponent(segment).text
\* The deliveries whose path matches the pattern of the route.
MatchingDeliveries ==
    { k \in 1 .. Len(deliveries) :
        PatternMatches(routes[1].path, deliveries[k].value.path) }

\* The parameters the handler of delivery d got are, each, the decoded (or,
\* failing that, raw) segment the path has at the place of the parameter.
ParamsAreCaptures(d) ==
    LET pattern == d.seen[1].path
        path == d.value.path
        params == d.context[1].params
    IN  /\ DOMAIN params
               \subseteq { pattern[i].name : i \in CapturePlaces(pattern) }
        /\ \A name \in DOMAIN params :
              /\ PlaceOf(pattern, name) <= Len(path)
              /\ params[name] = DecodedOrRaw(path[PlaceOf(pattern, name)])
        /\ \A i \in CapturePlaces(pattern) :
              i <= Len(path) => pattern[i].name \in DOMAIN params

\* matches() did not throw in delivery d: a delivery whose path matches is
\* dispatched to the handler and fails only when the handler does; one
\* whose path does not match ends as unmatched.
MatchesNeverThrows(d) ==
    IF PatternMatches(d.seen[1].path, d.value.path)
    THEN /\ d.trace = << Event("assertIsMessage", 0, TRUE),
                         Event("matches", 1, TRUE),
                         Event("handle", 1, TRUE) >>
                          \o SubSeq(d.trace, 4, Len(d.trace))
         /\ d.invoked = << Handlers[1] >>
         /\ d.state = "Rejected" => d.error = d.thrown /\ IsDefined(d.thrown)
    ELSE /\ d.trace = << Event("assertIsMessage", 0, TRUE),
                         Event("matches", 1, FALSE) >>
         /\ d.invoked = << >>
         /\ d.error = Some("No route matched message")

\* The parameter slot of the route is the one its last true matches()
\* stored: a false matches() left it alone.
SlotOfLastMatch ==
    routes[1].params
        = IF MatchingDeliveries = { } THEN EmptyParams
          ELSE deliveries[Greatest(MatchingDeliveries)].context[1].params

(* C23: Route.matches never throws; for a matching path every named        *)
(* parameter has the URI-decoded captured substring as its value, or the   *)
(* raw captured substring when it does not decode, and nothing else is in  *)
(* the mapping; for a non-matching path it returns false and leaves the    *)
(* stored mapping unchanged; a malformed percent-escape never makes a      *)
(* matching delivery fail.                                                 *)
C23_MatchesDecodesOrFallsBack ==
    /\ \A k \in 1 .. Len(deliveries) :
          /\ MatchesNeverThrows(deliveries[k])
          /\ k \in MatchingDeliveries => ParamsAreCaptures(deliveries[k])
    /\ SlotOfLastMatch

\* What does hold: the same, for a route whose pattern has no optional
\* parameter.
MatchesWithoutOptional ==
    (\A i \in 1 .. Len(routes[1].path) : routes[1].path[i].kind # "optional")
        => C23_MatchesDecodesOrFallsBack

====
